---- MODULE Spec2Model ----
(***************************************************************************)
(* Model of src/flow.py: the green-time calculator, the TrafficSimulation  *)
(* object (optimize_signals, simulate) and the input pipeline of main().   *)
(*                                                                         *)
(* Numbers.  A Python number is << sign, mantissa, exponent >> and stands  *)
(* for sign * mantissa * 2^exponent: sign is -1, 0 or 1, the mantissa is a *)
(* natural number with its lowest bit set, held as a sequence of limbs in  *)
(* base 2^15, least significant first (the products of two limbs fit       *)
(* 32-bit integers), and zero is << 0, << >>, 0 >>.  A number has one      *)
(* representation only, so equality of values is equality of triples.      *)
(* A Python int is a triple with exponent >= 0 and a mantissa of any       *)
(* length: ints are exact and unbounded (2**1100 has mantissa 1 and        *)
(* exponent 1100).  A Python float is an IEEE-754 binary64 value: a triple *)
(* whose mantissa has at most 53 bits and whose value is a multiple of     *)
(* 2^-1074 below 2^1024, or an infinity, << 1, << >>, 0 >> or              *)
(* << -1, << >>, 0 >>, or the NaN << 3, << >>, 0 >>.  An int and the float *)
(* equal to                                                                *)
(* it (10 and 10.0) are the same triple, as they are == in Python; so are  *)
(* 0.0 and -0.0, which the code never tells apart (a zero divisor raises   *)
(* whatever its sign). Each "/", "*", "-" and "+" that yields a float      *)
(* rounds its exact result to the nearest float, ties to even, as Python   *)
(* does: int / int rounds the exact quotient once and raises OverflowError *)
(* where the result is beyond the floats, an int operand of a float        *)
(* operation is converted first (OverflowError where it is too large), and *)
(* a float operation beyond the floats gives an infinity. An exception     *)
(* raised in place of a value is << 2, << >>, 0 >> (ZeroDivisionError) or  *)
(* << 2, << >>, 1 >> (OverflowError); an operation on a raised operand     *)
(* raises the same.                                                        *)
(*                                                                         *)
(* Signal indices are 0-based as in the code; the TLA+ sequences holding   *)
(* the per-signal lists are 1-based, signal i sits at position i + 1.      *)
(***************************************************************************)
EXTENDS Integers, Sequences, FiniteSets, TLC

\* ---------------------------------------------------------------- bounds
MaxSignals == 2          \* longest input list explored
MaxRuns    == 2          \* simulate() calls explored on one object
MaxLine    == 1          \* longest index line typed at a get_index_list prompt
MaxDistance == 12        \* longest distance of the one-signal objects explored

\* the signals explored, each << distance, speed, volume, green time >>:
\* a travel time above the green time by a little and by a lot, a green time
\* of 0, green times that come from the volume, scores and green times that
\* are not exact in binary, a speed of 0 and a negative speed
SignalVals ==
    { << 6, 1, 0, 5 >>, << 8, 1, 0, 5 >>, << 6, 1, 0, 0 >>,
      << 6, 1, 185, 0 >>, << 12, 1, 0, 5 >>, << 5, 6, 25, 0 >>,
      << 7, 3, 45, 0 >>,
      << 6, 0, 0, 5 >>, << 6, -1, 0, 5 >> }

\* the speeds, volumes and green times of the one-signal objects explored
\* over every distance from 0 to MaxDistance
DistanceSpeeds  == {1, 3, 6, 8}
DistanceVolumes == {0, 25, 45, 185}
DistanceGreens  == {0, 1, 5}

\* ------------------------------------- natural numbers of any size (limbs)
Base     == 32768        \* 2^LimbBits
LimbBits == 15
MantBits == 53           \* bits in the mantissa of a binary64 float

Abs(n) == IF n < 0 THEN -n ELSE n

\* drop the leading zero limbs
RECURSIVE BTrim(_)
BTrim(a) ==
    IF Len(a) = 0 THEN << >>
    ELSE IF a[Len(a)] = 0 THEN BTrim(SubSeq(a, 1, Len(a) - 1)) ELSE a

RECURSIVE BFromInt(_)
BFromInt(n) == IF n = 0 THEN << >> ELSE << n % Base >> \o BFromInt(n \div Base)

RECURSIVE BToInt(_)
BToInt(a) == IF Len(a) = 0 THEN 0 ELSE a[1] + Base * BToInt(Tail(a))

RECURSIVE BCmpAt(_, _, _)
BCmpAt(a, b, i) ==
    IF i = 0 THEN 0
    ELSE IF a[i] # b[i] THEN (IF a[i] < b[i] THEN -1 ELSE 1)
    ELSE BCmpAt(a, b, i - 1)

\* -1, 0 or 1 as a < b, a = b or a > b
BCmp(a, b) ==
    IF Len(a) # Len(b) THEN (IF Len(a) < Len(b) THEN -1 ELSE 1)
    ELSE BCmpAt(a, b, Len(a))

Limb(a, i) == IF i <= Len(a) THEN a[i] ELSE 0

RECURSIVE BAddAt(_, _, _, _)
BAddAt(a, b, i, c) ==
    IF i > Len(a) /\ i > Len(b)
    THEN (IF c = 0 THEN << >> ELSE << c >>)
    ELSE << (Limb(a, i) + Limb(b, i) + c) % Base >>
         \o BAddAt(a, b, i + 1, (Limb(a, i) + Limb(b, i) + c) \div Base)

BAdd(a, b) == BAddAt(a, b, 1, 0)

\* a - b for a >= b
RECURSIVE BSubAt(_, _, _, _)
BSubAt(a, b, i, c) ==
    IF i > Len(a) THEN << >>
    ELSE IF a[i] - Limb(b, i) - c < 0
         THEN << a[i] - Limb(b, i) - c + Base >> \o BSubAt(a, b, i + 1, 1)
         ELSE << a[i] - Limb(b, i) - c >> \o BSubAt(a, b, i + 1, 0)

BSub(a, b) == BTrim(BSubAt(a, b, 1, 0))

\* a times the limb k
RECURSIVE BMulSmallAt(_, _, _, _)
BMulSmallAt(a, k, i, c) ==
    IF i > Len(a) THEN BFromInt(c)
    ELSE << (a[i] * k + c) % Base >> \o BMulSmallAt(a, k, i + 1, (a[i] * k + c) \div Base)

BMulSmall(a, k) == IF k = 0 THEN << >> ELSE BMulSmallAt(a, k, 1, 0)

\* a times Base
BShift1(a) == IF Len(a) = 0 THEN << >> ELSE << 0 >> \o a

\* a * b from the limbs i, i-1, ..., 1 of b, given the product acc of a and
\* the limbs above them (the test has acc computed before the next step)
RECURSIVE BMulAt(_, _, _, _)
BMulAt(a, b, i, acc) ==
    IF i = 0 \/ Len(acc) < 0 THEN acc
    ELSE BMulAt(a, b, i - 1, BAdd(BMulSmall(a, b[i]), BShift1(acc)))

\* the steps are those of the shorter factor
BMul(a, b) ==
    IF Len(a) < Len(b) THEN BMulAt(b, a, Len(a), << >>) ELSE BMulAt(a, b, Len(b), << >>)

Zeros(n) == [i \in 1..n |-> 0]

\* a * 2^k
BShl(a, k) ==
    IF Len(a) = 0 THEN << >>
    ELSE Zeros(k \div LimbBits) \o BMulSmall(a, 2 ^ (k % LimbBits))

\* a \div 2^k (the limbs are put in a tuple once, not computed at each use)
BShr(a, k) ==
    IF Len(a) <= k \div LimbBits THEN << >>
    ELSE BTrim(<< >> \o [i \in 1..(Len(a) - (k \div LimbBits)) |->
                  (a[(k \div LimbBits) + i] \div (2 ^ (k % LimbBits)))
                  + (Limb(a, (k \div LimbBits) + i + 1) % (2 ^ (k % LimbBits)))
                    * (2 ^ (LimbBits - (k % LimbBits)))])

RECURSIVE BitLenLimb(_)
BitLenLimb(x) == IF x = 0 THEN 0 ELSE 1 + BitLenLimb(x \div 2)

\* number of bits of a
BBitLen(a) == IF Len(a) = 0 THEN 0 ELSE (Len(a) - 1) * LimbBits + BitLenLimb(a[Len(a)])

\* bit j of a, bit 0 the lowest
BBit(a, j) == (Limb(a, j \div LimbBits + 1) \div (2 ^ (j % LimbBits))) % 2

\* some bit below bit j of a is set
BLowNonZero(a, j) ==
    \E i \in 1..Len(a) :
        \/ i <= j \div LimbBits /\ a[i] # 0
        \/ i = j \div LimbBits + 1 /\ a[i] % (2 ^ (j % LimbBits)) # 0

RECURSIVE TrailingZerosLimb(_)
TrailingZerosLimb(x) == IF x % 2 = 1 THEN 0 ELSE 1 + TrailingZerosLimb(x \div 2)

RECURSIVE BTrailingZerosAt(_, _)
BTrailingZerosAt(a, i) ==
    IF a[i] = 0 THEN LimbBits + BTrailingZerosAt(a, i + 1) ELSE TrailingZerosLimb(a[i])

\* number of zero bits at the low end of a # 0
BTrailingZeros(a) == BTrailingZerosAt(a, 1)

\* one digit of a long division: r < d * Base, the top limb of d at least Base / 2
RECURSIVE QCorrect(_, _, _)
QCorrect(r, d, q) == IF BCmp(BMulSmall(d, q), r) > 0 THEN QCorrect(r, d, q - 1) ELSE q

QEstimate(est) == IF est > Base - 1 THEN Base - 1 ELSE est

QDigit(r, d) ==
    IF BCmp(r, d) < 0 THEN 0
    ELSE QCorrect(r, d, QEstimate((Limb(r, Len(d) + 1) * Base + r[Len(d)]) \div d[Len(d)]))

RECURSIVE BDivAt(_, _, _, _, _)
\* the tests have the digit, the remainder and the quotient computed at
\* each step, not left pending to the end of the division
BDivStep(a, d, i, rem, quo) ==
    IF Len(rem) < 0 \/ Len(quo) < 0 THEN << >> ELSE BDivAt(a, d, i - 1, rem, quo)

BDivQ(a, d, i, r, quo, q) ==
    IF q < 0 THEN << >> ELSE BDivStep(a, d, i, BSub(r, BMulSmall(d, q)), << q >> \o quo)

BDivR(a, d, i, r, quo) == BDivQ(a, d, i, r, quo, QDigit(r, d))

\* long division of the limbs i, i-1, ..., 1 of a by d, given the remainder
\* and the quotient of the limbs above them
BDivAt(a, d, i, rem, quo) ==
    IF i = 0 THEN << BTrim(quo), rem >>
    ELSE BDivR(a, d, i, BTrim(<< a[i] >> \o rem), quo)

BDivNormalized(a, d) ==
    IF Len(a) < Len(d) THEN << << >>, a >>
    ELSE BDivAt(a, d, Len(a) - Len(d) + 1, SubSeq(a, Len(a) - Len(d) + 2, Len(a)), << >>)

BDivResult(r, s) == << r[1], BShr(r[2], s) >>

BDivShifted(a, d, s) == BDivResult(BDivNormalized(BShl(a, s), BShl(d, s)), s)

\* << quotient, remainder >> of a by d # 0
BDivMod(a, d) == BDivShifted(a, d, LimbBits - BitLenLimb(d[Len(d)]))

\* ------------------------------------------------------- Python numbers
FZero == << 0, << >>, 0 >>
FInf == << 1, << >>, 0 >>
FNaN == << 3, << >>, 0 >>
\* an exception raised where a value was to be computed
ZeroDivisionError == << 2, << >>, 0 >>
OverflowError == << 2, << >>, 1 >>

IsRaised(x) == x[1] = 2
IsNaN(x) == x[1] = 3
IsInf(x) == Abs(x[1]) = 1 /\ Len(x[2]) = 0
\* the infinity of sign s
Inf(s) == << s, << >>, 0 >>

ExcName(x) == IF x = ZeroDivisionError THEN "ZeroDivisionError" ELSE "OverflowError"

MinBit == 1074           \* the lowest bit of a float is that of 2^-MinBit
MaxBit == 1024           \* a float is below 2^MaxBit

FStrip(s, m, e, z) == << s, BShr(m, z), e + z >>

\* the triple of s * m * 2^e
FNorm(s, m, e) == IF Len(m) = 0 THEN FZero ELSE FStrip(s, m, e, BTrailingZeros(m))

\* the Python int n of the model's integers
FromInt(n) == FNorm(IF n < 0 THEN -1 ELSE 1, BFromInt(Abs(n)), 0)

\* the Python int s * (limbs[1] + limbs[2] * 2^15 + limbs[3] * 2^30 + ...)
PyInt(s, limbs) == FNorm(s, BTrim(limbs), 0)

\* round to nearest, ties to even: q holds the bits of m above its lowest k,
\* sticky says that m itself was truncated
RoundUp(m, q, k, sticky) ==
    BBit(m, k - 1) = 1 /\ (sticky \/ BLowNonZero(m, k - 1) \/ BBit(q, 0) = 1)

Rounded(m, q, k, sticky) == IF RoundUp(m, q, k, sticky) THEN BAdd(q, << 1 >>) ELSE q

FRoundBits(s, m, e, sticky, k) ==
    IF k <= 0 THEN FNorm(s, m, e)
    ELSE FNorm(s, Rounded(m, BShr(m, k), k, sticky), e + k)

\* the mantissa bits a float near m * 2^e has: MantBits, fewer below 2^-1022
Precision(m, e) ==
    IF BBitLen(m) + e + MinBit < MantBits THEN BBitLen(m) + e + MinBit ELSE MantBits

\* the nearest multiple of 2^-MinBit with at most MantBits bits to s * m * 2^e
FRound(s, m, e, sticky) == FRoundBits(s, m, e, sticky, BBitLen(m) - Precision(m, e))

\* the same for the finite number x
Round(x) == IF x[1] = 0 THEN FZero ELSE FRound(x[1], x[2], x[3], FALSE)

\* the rounded r is beyond the floats
TooLarge(r) == r[1] # 0 /\ BBitLen(r[2]) + r[3] > MaxBit

\* a rounded result where Python raises OverflowError beyond the floats
FloatOrRaise(r) == IF TooLarge(r) THEN OverflowError ELSE r

\* a rounded result of a float operation: an infinity beyond the floats
FloatOrInf(r) == IF TooLarge(r) THEN Inf(r[1]) ELSE r

\* the float operand of an operation made from the number x: a float is
\* itself, an int is converted ("int too large to convert to float")
Float(x) ==
    IF IsRaised(x) \/ IsNaN(x) \/ IsInf(x) THEN x ELSE FloatOrRaise(Round(x))

\* -x
FNeg(a) == IF IsRaised(a) \/ IsNaN(a) THEN a ELSE << -a[1], a[2], a[3] >>

MinExp(a, b) == IF a[3] < b[3] THEN a[3] ELSE b[3]

\* the mantissa of a at the exponent e <= a[3]
Aligned(a, e) == BShl(a[2], a[3] - e)

\* the products, sums and differences of finite numbers before rounding;
\* ExactMul is Python's int * int
ExactMul(a, b) == FNorm(a[1] * b[1], BMul(a[2], b[2]), a[3] + b[3])

ExactDiff(sa, x, sb, y, e, c) ==
    IF c = 0 THEN FZero
    ELSE IF c > 0 THEN FNorm(sa, BSub(x, y), e)
    ELSE FNorm(sb, BSub(y, x), e)

ExactAddAligned(sa, x, sb, y, e) ==
    IF sa = sb THEN FNorm(sa, BAdd(x, y), e)
    ELSE ExactDiff(sa, x, sb, y, e, BCmp(x, y))

ExactAddAt(a, b, e) == ExactAddAligned(a[1], Aligned(a, e), b[1], Aligned(b, e), e)

ExactAdd(a, b) ==
    IF a[1] = 0 THEN b
    ELSE IF b[1] = 0 THEN a
    ELSE ExactAddAt(a, b, MinExp(a, b))

ExactSub(a, b) == ExactAdd(a, FNeg(b))

\* a float operand an operation computes with: neither raised nor NaN
IsNumber(x) == ~IsRaised(x) /\ ~IsNaN(x)

\* the result of an operation on operands that are not both numbers: a
\* raised operand raises, the left one first; a NaN operand gives NaN
NotNumber(x, y) == IF IsRaised(x) THEN x ELSE IF IsRaised(y) THEN y ELSE FNaN

MulFloats(x, y) ==
    IF IsInf(x) \/ IsInf(y)
    THEN (IF x[1] * y[1] = 0 THEN FNaN ELSE Inf(x[1] * y[1]))
    ELSE FloatOrInf(Round(ExactMul(x, y)))

AddFloats(x, y) ==
    IF IsInf(x) THEN (IF IsInf(y) /\ y[1] # x[1] THEN FNaN ELSE x)
    ELSE IF IsInf(y) THEN y
    ELSE FloatOrInf(Round(ExactAdd(x, y)))

MulOperands(x, y) ==
    IF IsNumber(x) /\ IsNumber(y) THEN MulFloats(x, y) ELSE NotNumber(x, y)

AddOperands(x, y) ==
    IF IsNumber(x) /\ IsNumber(y) THEN AddFloats(x, y) ELSE NotNumber(x, y)

\* Python's a * b, a + b, a - b where one operand at least is a float
FMul(a, b) == MulOperands(Float(a), Float(b))
FAdd(a, b) == AddOperands(Float(a), Float(b))
FSub(a, b) == AddOperands(Float(a), FNeg(Float(b)))

FQuotient(s, qr, e, sticky) == FRound(s, qr[1], e, sticky \/ Len(qr[2]) # 0)

\* the quotient of a * 2^k by b for k >= 0, of a by b * 2^-k for k < 0
FDivBits(a, b, k) ==
    IF k >= 0
    THEN FQuotient(a[1] * b[1], BDivMod(BShl(a[2], k), b[2]), a[3] - b[3] - k, FALSE)
    ELSE FQuotient(a[1] * b[1], BDivMod(BShr(a[2], -k), b[2]), a[3] - b[3] - k,
                   BLowNonZero(a[2], -k))

\* the exact quotient of the finite non-zero numbers a and b, rounded once:
\* the quotient of the mantissas to MantBits + 2 bits, then rounded
Quotient(a, b) == FDivBits(a, b, MantBits + 2 + BBitLen(b[2]) - BBitLen(a[2]))

DivFloats(x, y) ==
    IF IsInf(x) THEN (IF IsInf(y) THEN FNaN ELSE Inf(x[1] * y[1]))
    ELSE IF IsInf(y) \/ x[1] = 0 THEN FZero
    ELSE FloatOrInf(Quotient(x, y))

DivByFloat(x, y) ==
    IF IsRaised(x) THEN x
    ELSE IF IsRaised(y) THEN y
    ELSE IF y[1] = 0 THEN ZeroDivisionError
    ELSE IF IsNaN(x) \/ IsNaN(y) THEN FNaN
    ELSE DivFloats(x, y)

\* Python's a / b where one operand at least is a float: "float division by
\* zero" for a zero divisor, an infinity beyond the floats
FDiv(a, b) == DivByFloat(Float(a), Float(b))

\* Python's a / b on two ints: "division by zero" for b == 0, the exact
\* quotient rounded once, "integer division result too large for a float"
\* beyond the floats
IntTrueDiv(a, b) ==
    IF IsRaised(a) THEN a
    ELSE IF IsRaised(b) THEN b
    ELSE IF b[1] = 0 THEN ZeroDivisionError
    ELSE IF a[1] = 0 THEN FZero
    ELSE FloatOrRaise(Quotient(a, b))

\* the position above the highest bit of the finite non-zero a
TopBit(a) == BBitLen(a[2]) + a[3]

FCmpAt(a, b, e) == a[1] * BCmp(Aligned(a, e), Aligned(b, e))

FCmpFinite(a, b) ==
    IF TopBit(a) # TopBit(b) THEN (IF TopBit(a) < TopBit(b) THEN -a[1] ELSE a[1])
    ELSE FCmpAt(a, b, MinExp(a, b))

FCmpSameSign(a, b) ==
    IF IsInf(a) THEN (IF IsInf(b) THEN 0 ELSE a[1])
    ELSE IF IsInf(b) THEN -a[1]
    ELSE FCmpFinite(a, b)

\* -1, 0 or 1 as a < b, a == b or a > b, exact also between an int and a
\* float; 2 where a NaN makes every comparison false
FCmp(a, b) ==
    IF IsRaised(a) \/ IsRaised(b) \/ IsNaN(a) \/ IsNaN(b) THEN 2
    ELSE IF a[1] # b[1] THEN (IF a[1] < b[1] THEN -1 ELSE 1)
    ELSE IF a[1] = 0 THEN 0
    ELSE FCmpSameSign(a, b)

FLe(a, b) == FCmp(a, b) \in {-1, 0}
FLt(a, b) == FCmp(a, b) = -1
\* Python's max(a, b) and min(a, b): b where b > a (b < a), else a
FMax(a, b) ==
    IF IsRaised(a) THEN a ELSE IF IsRaised(b) THEN b ELSE IF FLt(a, b) THEN b ELSE a
FMin(a, b) ==
    IF IsRaised(a) THEN a ELSE IF IsRaised(b) THEN b ELSE IF FLt(b, a) THEN b ELSE a

\* ------------------------------------------------- "{x:.2f}" formatting
Digit(n) ==
    CASE n = 0 -> "0" [] n = 1 -> "1" [] n = 2 -> "2" [] n = 3 -> "3"
      [] n = 4 -> "4" [] n = 5 -> "5" [] n = 6 -> "6" [] n = 7 -> "7"
      [] n = 8 -> "8" [] n = 9 -> "9"

RECURSIVE Decimal(_)
DecimalDigits(qr) ==
    IF Len(qr[1]) = 0 THEN Digit(BToInt(qr[2]))
    ELSE Decimal(qr[1]) \o Digit(BToInt(qr[2]))

\* the decimal digits of the natural number a
Decimal(a) == IF Len(a) = 0 THEN "0" ELSE DecimalDigits(BDivMod(a, << 10 >>))

\* str(n) of a model integer n
IntStr(n) == (IF n < 0 THEN "-" ELSE "") \o Decimal(BFromInt(Abs(n)))

HundredthsOf(n, e) == IF e >= 0 THEN BShl(n, e) ELSE Rounded(n, BShr(n, -e), -e, FALSE)

\* |x| * 100 rounded to an integer, ties to even, from the exact value of the float x
Hundredths(x) == HundredthsOf(BMulSmall(x[2], 100), x[3])

TwoDigits(f) == Digit(f \div 10) \o Digit(f % 10)

Fmt2Parts(s, qr) ==
    (IF s < 0 THEN "-" ELSE "") \o Decimal(qr[1]) \o "." \o TwoDigits(BToInt(qr[2]))

FormatFloat(x) ==
    IF IsNaN(x) THEN "nan"
    ELSE IF IsInf(x) THEN (IF x[1] < 0 THEN "-inf" ELSE "inf")
    ELSE Fmt2Parts(x[1], BDivMod(Hundredths(x), << 100 >>))

\* "{x:.2f}": sign, integer part, two decimals of x as a float; an int too
\* large for a float raises
Fmt2(x) == IF IsRaised(Float(x)) THEN ExcName(Float(x)) ELSE FormatFloat(Float(x))
\* ------------------------------------------- ints beyond the float range
\* the int 2 ** k
PowerOfTwo(k) == << 1, << 1 >>, k >>

\* 2**1100, an int no float is near, and 2**1030, a volume whose
\* volume * 2 / 3600 is a float and whose green time is not
Huge == PowerOfTwo(1100)
HugeVolume == PowerOfTwo(1030)

\* signals << distance, speed, volume, green time >> with such ints: a speed
\* of 0, a distance, a volume, a speed and a green time of 2**1100, a green
\* time of -2**1100 under an infinite negative volume green time, and an
\* infinite volume green time
LargeVals ==
    { << FromInt(6), FZero, FZero, FromInt(5) >>,
      << Huge, FromInt(1), FZero, FromInt(5) >>,
      << FromInt(6), FromInt(1), Huge, FromInt(5) >>,
      << FromInt(6), Huge, FZero, FZero >>,
      << FromInt(6), FromInt(1), FZero, Huge >>,
      << FromInt(6), FromInt(1), FNeg(HugeVolume), FNeg(Huge) >>,
      << FromInt(6), FromInt(1), HugeVolume, FZero >> }

\* the << distance, speed, volume >> typed at the prompts of get_user_input
InputVals ==
    { << FromInt(6), FromInt(1), FromInt(185) >>, << FromInt(8), FromInt(1), FZero >>,
      << FromInt(5), FromInt(6), FromInt(25) >>, << FromInt(6), FZero, FZero >>,
      << FromInt(6), FromInt(-1), FromInt(185) >>,
      << Huge, FromInt(1), FZero >>, << Huge, FromInt(-1), FZero >>,
      << FromInt(6), FromInt(1), HugeVolume >> }

\* ------------------------------------------------------------ the object
VARIABLES
    distances, speeds, volumes, green_times,   \* the four input lists
    emergencies, accidents,                    \* the two index sets
    flow,                                      \* self.flow
    bad_scenarios,                             \* self.bad_scenarios
    rating,                                    \* self.rating
    warned,                                    \* indices of the warnings printed
    exc,                                       \* exception that was left uncaught
    runs,                                      \* simulate() calls made so far
    pc,                                        \* main(): the call it is about to make
    num_signals,                               \* main(): num_signals
    emerg_in, acc_in,                          \* main(): the two index lists
    msg                                        \* line printed last by a pass of an input loop

objVars == << distances, speeds, volumes, green_times, emergencies, accidents,
              flow, bad_scenarios, rating, warned, exc, runs >>
mainVars == << pc, num_signals, emerg_in, acc_in, msg >>
vars == << objVars, mainVars >>

\* self.rating does not exist before the first simulate(): a triple no number has
NoRating == << 0, << >>, 1 >>

\* volume * 2 / 3600 * 60: an int product, then an int / int quotient and a
\* float product
VolumeGreenTime(volume) ==
    FMul(IntTrueDiv(ExactMul(volume, FromInt(2)), FromInt(3600)), FromInt(60))

\* faulty variant: min in place of max
OptimizedGreenTimeMin(gt, volume) == FMin(gt, VolumeGreenTime(volume))

\* optimize_signals, one element of the comprehension
OptimizedGreenTime(gt, volume) == FMax(gt, VolumeGreenTime(volume))

\* the exception the first raising element of a list stands for, or "none"
FirstRaised(l) ==
    IF \E k \in 1..Len(l) : IsRaised(l[k])
    THEN ExcName(l[CHOOSE k \in 1..Len(l) :
                       IsRaised(l[k]) /\ \A j \in 1..(k - 1) : ~IsRaised(l[j])])
    ELSE "none"

\* what a function returns, or the exception it leaves with
Returned(l) ==
    IF FirstRaised(l) = "none"
    THEN [value |-> l, exc |-> "none"]
    ELSE [value |-> << >>, exc |-> FirstRaised(l)]

optimize_signals(gts, vols) ==
    Returned(<< >> \o [k \in 1..(IF Len(gts) < Len(vols) THEN Len(gts) ELSE Len(vols)) |->
                          OptimizedGreenTime(gts[k], vols[k])])

\* faulty variant: the ratio taken upside down, green time over excess
PenaltyInverted(travel_time, ogt) ==
    FMin(FromInt(9), FMul(FDiv(ogt, FSub(travel_time, ogt)), FromInt(9)))

\* excess_time = travel_time - green; penalty = min(9, excess_time / green * 9)
Penalty(travel_time, ogt) ==
    FMin(FromInt(9), FMul(FDiv(FSub(travel_time, ogt), ogt), FromInt(9)))

\* faulty variant: the min(9, .) and max(1, .) clamps left out
FlowRatingUnclamped(travel_time, ogt) ==
    FSub(FromInt(10), FMul(FDiv(FSub(travel_time, ogt), ogt), FromInt(9)))

\* flow_rating = max(1, 10 - penalty)
FlowRating(travel_time, ogt) == FMax(FromInt(1), FSub(FromInt(10), Penalty(travel_time, ogt)))

LowFlowLabel(flow_rating) == "Low flow (Rating: " \o Fmt2(flow_rating) \o ")"

\* what one pass of the loop body appends / prints / raises
Outcome(f, b, w, e) == [flow |-> f, bad |-> b, warned |-> w, exc |-> e]

\* an exception raised before any append
Raise(x) == Outcome(<< >>, << >>, << >>, ExcName(x))

\* the except ZeroDivisionError clause
ExceptZeroDivision(i) == Outcome(<< FZero >>, << << i, "Zero Speed" >> >>, << i >>, "none")

\* self.flow.append(flow_rating) and the record made below 5; a flow_rating
\* that raised (a zero green time, an int green time too large for a float)
\* appends nothing
AppendRating(i, flow_rating) ==
    IF IsRaised(flow_rating) THEN Raise(flow_rating)
    ELSE Outcome(<< flow_rating >>,
                 IF FLt(flow_rating, FromInt(5))
                 THEN << << i, LowFlowLabel(flow_rating) >> >>
                 ELSE << >>,
                 << >>, "none")

\* the if/else on travel_time
ScoreTravelTime(i, travel_time, ogt) ==
    IF IsRaised(travel_time) THEN Raise(travel_time)
    ELSE IF FLe(travel_time, ogt)
         THEN Outcome(<< FromInt(10) >>, << >>, << >>, "none")
         ELSE AppendRating(i, FlowRating(travel_time, ogt))

\* the body of the try: block; distance / speed raises ZeroDivisionError for
\* a zero speed and OverflowError for a quotient beyond the floats
TryBody(i, dist, speed, ogt) == ScoreTravelTime(i, IntTrueDiv(dist, speed), ogt)

\* "except ZeroDivisionError": any other exception goes on
Caught(i, r) == IF r.exc = "ZeroDivisionError" THEN ExceptZeroDivision(i) ELSE r

TryExcept(i, dist, speed, ogt) == Caught(i, TryBody(i, dist, speed, ogt))

\* faulty variant: the emergency test made before the accident test
LoopBodyEmergencyFirst(i, dist, speed, ogt, emg, acc) ==
    IF i \in emg
    THEN Outcome(<< FromInt(5) >>, << << i, "Emergency" >> >>, << >>, "none")
    ELSE IF i \in acc
         THEN Outcome(<< FZero >>, << << i, "Accident" >> >>, << >>, "none")
         ELSE TryExcept(i, dist, speed, ogt)

\* the body of "for i in range(num_signals)"
LoopBody(i, dist, speed, ogt, emg, acc) ==
    IF i \in acc
    THEN Outcome(<< FZero >>, << << i, "Accident" >> >>, << >>, "none")
    ELSE IF i \in emg
         THEN Outcome(<< FromInt(5) >>, << << i, "Emergency" >> >>, << >>, "none")
         ELSE TryExcept(i, dist, speed, ogt)

\* the state after one pass: the appends made, the exception left with
After(st, r) ==
    Outcome(st.flow \o r.flow, st.bad \o r.bad, st.warned \o r.warned, r.exc)

\* the for loop from signal i on, started with the accumulated st; an
\* exception the try does not catch ends it
RECURSIVE SimLoop(_, _, _)
SimLoop(i, st, ogts) ==
    IF i >= Len(distances) \/ st.exc # "none"
    THEN st
    ELSE SimLoop(i + 1,
                 After(st, LoopBody(i, distances[i + 1], speeds[i + 1], ogts[i + 1],
                                    emergencies, accidents)),
                 ogts)

\* the entries of fl from k on, added one after the other to acc
RECURSIVE SumFrom(_, _, _)
SumFrom(fl, k, acc) == IF k > Len(fl) THEN acc ELSE SumFrom(fl, k + 1, FAdd(acc, fl[k]))

\* the sum of the entries k, k + 8, k + 16, ... of fl below position last
RECURSIVE StrideSum(_, _, _, _)
StrideSum(fl, k, last, acc) ==
    IF k + 8 > last THEN acc ELSE StrideSum(fl, k + 8, last, FAdd(acc, fl[k + 8]))

\* the eight partial sums of a block
Strides(fl) == [k \in 1..8 |-> StrideSum(fl, k, Len(fl) - (Len(fl) % 8), fl[k])]

SumOfStrides(r) ==
    FAdd(FAdd(FAdd(r[1], r[2]), FAdd(r[3], r[4])), FAdd(FAdd(r[5], r[6]), FAdd(r[7], r[8])))

\* where a list of more than 128 entries is split: half, a multiple of 8
SplitAt(n) == (n \div 2) - ((n \div 2) % 8)

\* the sum numpy's add.reduce forms of a float array: one after the other
\* for fewer than 8 entries, eight interleaved partial sums for a block of
\* 128 at most, two halves above
RECURSIVE PairwiseSum(_)
PairwiseSum(fl) ==
    IF Len(fl) < 8 THEN SumFrom(fl, 1, FZero)
    ELSE IF Len(fl) <= 128
         THEN SumFrom(fl, Len(fl) - (Len(fl) % 8) + 1, SumOfStrides(<< >> \o Strides(fl)))
         ELSE FAdd(PairwiseSum(SubSeq(fl, 1, SplitAt(Len(fl)))),
                   PairwiseSum(SubSeq(fl, SplitAt(Len(fl)) + 1, Len(fl))))

\* faulty variant: the sum is not divided by the number of entries
MeanSum(fl) == IF fl = << >> THEN FZero ELSE PairwiseSum(fl)

\* np.mean(self.flow) if self.flow else 0: the sum of the entries as floats
\* divided by their number
Mean(fl) == IF fl = << >> THEN FZero ELSE FDiv(PairwiseSum(fl), FromInt(Len(fl)))

\* simulate() after optimize_signals() returned or raised
SimulateFrom(o) ==
    IF o.exc # "none"
    THEN Outcome(flow, bad_scenarios, warned, o.exc)
    ELSE SimLoop(0, Outcome(flow, bad_scenarios, warned, "none"), o.value)

\* TrafficSimulation.simulate on the object in its current state; an
\* exception leaves the appends made and no new rating
SimulateCall ==
    /\ \E st \in { SimulateFrom(optimize_signals(green_times, volumes)) } :
          /\ flow' = st.flow
          /\ bad_scenarios' = st.bad
          /\ warned' = st.warned
          /\ exc' = st.exc
          /\ rating' = IF st.exc = "none" THEN Mean(st.flow) ELSE rating
          /\ pc' = IF pc # "simulate" THEN pc
                   ELSE IF st.exc = "none" THEN "done" ELSE "aborted"
    /\ runs' = runs + 1
    /\ UNCHANGED << distances, speeds, volumes, green_times, emergencies, accidents,
                    num_signals, emerg_in, acc_in, msg >>

\* lists of length n over the value set S
Lists(n, S) == [1..n -> S]

\* a freshly constructed object
Fresh ==
    /\ flow = << >>
    /\ bad_scenarios = << >>
    /\ rating = NoRating
    /\ warned = << >>
    /\ exc = "none"
    /\ runs = 0
    /\ pc = "object"
    /\ emerg_in = << >>
    /\ acc_in = << >>
    /\ msg = ""

\* TrafficSimulation.__init__ applied to arbitrary equal-length int lists
Init ==
    /\ \E n \in 0..MaxSignals :
          /\ \E cs \in Lists(n, SignalVals) :
                /\ distances = [k \in 1..n |-> FromInt(cs[k][1])]
                /\ speeds = [k \in 1..n |-> FromInt(cs[k][2])]
                /\ volumes = [k \in 1..n |-> FromInt(cs[k][3])]
                /\ green_times = [k \in 1..n |-> FromInt(cs[k][4])]
          /\ emergencies \in SUBSET (0..(n - 1))
          /\ accidents \in SUBSET (0..(n - 1))
          /\ num_signals = n
    /\ Fresh

\* TrafficSimulation.__init__ applied to one signal, neither emergency nor accident
InitDistance ==
    /\ distances \in Lists(1, { FromInt(d) : d \in 0..MaxDistance })
    /\ speeds \in Lists(1, { FromInt(s) : s \in DistanceSpeeds })
    /\ volumes \in Lists(1, { FromInt(v) : v \in DistanceVolumes })
    /\ green_times \in Lists(1, { FromInt(g) : g \in DistanceGreens })
    /\ emergencies = {}
    /\ accidents = {}
    /\ num_signals = 1
    /\ Fresh

\* TrafficSimulation.__init__ applied to lists that hold ints beyond the floats
InitLarge ==
    /\ \E n \in 0..MaxSignals :
          /\ \E cs \in Lists(n, LargeVals) :
                /\ distances = [k \in 1..n |-> cs[k][1]]
                /\ speeds = [k \in 1..n |-> cs[k][2]]
                /\ volumes = [k \in 1..n |-> cs[k][3]]
                /\ green_times = [k \in 1..n |-> cs[k][4]]
          /\ emergencies \in SUBSET (0..(n - 1))
          /\ accidents \in SUBSET (0..(n - 1))
          /\ num_signals = n
    /\ Fresh

\* the first simulate() on a freshly constructed object
Simulate ==
    /\ pc = "object"
    /\ runs = 0
    /\ SimulateCall

\* a further simulate() on the same object
Resimulate ==
    /\ pc = "object"
    /\ runs >= 1
    /\ runs < MaxRuns
    /\ SimulateCall

Next == Simulate

Spec == Init /\ [][Next]_vars

SpecDistance == InitDistance /\ [][Next]_vars

SpecLarge == InitLarge /\ [][Next]_vars

NextRerun == Simulate \/ Resimulate

SpecRerun == Init /\ [][NextRerun]_vars

\* ------------------------------------------------------------- main()
\* calculate_green_times, one pass of its loop: travel_time, then
\* volume_green_time, then their max
GreenTime(distance, speed, volume) ==
    IF FLe(speed, FZero)
    THEN FZero
    ELSE FMax(IntTrueDiv(distance, speed), VolumeGreenTime(volume))

MinLen(a, b, c) ==
    LET m == IF Len(a) < Len(b) THEN Len(a) ELSE Len(b)
    IN  IF Len(c) < m THEN Len(c) ELSE m

calculate_green_times(ds, ss, vs) ==
    Returned(<< >> \o [k \in 1..MinLen(ds, ss, vs) |-> GreenTime(ds[k], ss[k], vs[k])])

\* set(a_list)
ToSet(s) == { s[k] : k \in 1..Len(s) }

\* the integers typed at an index prompt for n signals
IdxVals(n) == {-1, n - 1, n}

IndexLines(n) == UNION { Lists(k, IdxVals(n)) : k \in 0..MaxLine }

\* get_index_list: "if any(i >= num_signals for i in indices): raise ValueError"
IndexLineRejected(indices, n) == \E k \in 1..Len(indices) : indices[k] >= n

\* print(f"Input error: {e}. Please try again.")
InputError(e) == "Input error: " \o e \o ". Please try again."

RangeError == InputError("Indices must be within the range of signals.")
NotPositive == InputError("Number of signals must be positive.")
WrongLength(expected_length, got) ==
    InputError("Expected " \o IntStr(expected_length) \o " values, but got "
               \o IntStr(got) \o ".")
VolumesPrompt(n) ==
    "Enter traffic volumes at " \o IntStr(n) \o " signals (space-separated):"
EmergencyPrompt ==
    "Enter indices of signals with emergencies (space-separated) or press Enter to skip:"
AccidentPrompt ==
    "Enter indices of signals with accidents (space-separated) or press Enter to skip:"

\* the counts typed at "Enter the number of signals: "
CountVals == 0..MaxSignals

\* the numbers of values typed on a line where n are expected
LineLengths(n) == {n - 1, n, n + 1}

\* get_user_input, one pass of its while loop: the count typed, then the
\* three lines.  A count <= 0 and a line of the wrong length raise ValueError,
\* which prints the error and starts the loop again; three lines of the
\* right length are returned, the volumes prompt being the last line printed
GetUserInput ==
    /\ pc = "get_user_input"
    /\ \E n \in CountVals :
          IF n <= 0
          THEN /\ msg' = NotPositive
               /\ UNCHANGED << pc, num_signals, distances, speeds, volumes >>
          ELSE \E ld, ls, lv \in LineLengths(n) :
                  IF ld # n \/ ls # n \/ lv # n
                  THEN /\ msg' = WrongLength(n, IF ld # n THEN ld
                                                ELSE IF ls # n THEN ls ELSE lv)
                       /\ UNCHANGED << pc, num_signals, distances, speeds, volumes >>
                  ELSE /\ \E ins \in Lists(n, InputVals) :
                             /\ distances' = [k \in 1..n |-> ins[k][1]]
                             /\ speeds' = [k \in 1..n |-> ins[k][2]]
                             /\ volumes' = [k \in 1..n |-> ins[k][3]]
                       /\ num_signals' = n
                       /\ msg' = VolumesPrompt(n)
                       /\ pc' = "emergencies"
    /\ UNCHANGED << green_times, emergencies, accidents, flow, bad_scenarios, rating,
                    warned, exc, runs, emerg_in, acc_in >>

\* get_index_list(emergency prompt): one typed line, refused or returned
GetEmergencies ==
    /\ pc = "emergencies"
    /\ \E line \in IndexLines(num_signals) :
          IF IndexLineRejected(line, num_signals)
          THEN /\ msg' = RangeError
               /\ UNCHANGED << pc, emerg_in >>
          ELSE /\ msg' = EmergencyPrompt
               /\ emerg_in' = line
               /\ pc' = "accidents"
    /\ UNCHANGED << objVars, num_signals, acc_in >>

\* get_index_list(accident prompt): one typed line, refused or returned
GetAccidents ==
    /\ pc = "accidents"
    /\ \E line \in IndexLines(num_signals) :
          IF IndexLineRejected(line, num_signals)
          THEN /\ msg' = RangeError
               /\ UNCHANGED << pc, acc_in >>
          ELSE /\ msg' = AccidentPrompt
               /\ acc_in' = line
               /\ pc' = "calculate_green_times"
    /\ UNCHANGED << objVars, num_signals, emerg_in >>

\* green_times = calculate_green_times(distances, speeds, volumes); an
\* exception it raises ends main()
CalculateGreenTimes ==
    /\ pc = "calculate_green_times"
    /\ \E r \in { calculate_green_times(distances, speeds, volumes) } :
          /\ green_times' = IF r.exc = "none" THEN r.value ELSE green_times
          /\ exc' = r.exc
          /\ pc' = IF r.exc = "none" THEN "construct" ELSE "aborted"
    /\ UNCHANGED << distances, speeds, volumes, emergencies, accidents, flow,
                    bad_scenarios, rating, warned, runs, num_signals,
                    emerg_in, acc_in, msg >>

\* simulation = TrafficSimulation(distances, ..., emergencies, accidents)
Construct ==
    /\ pc = "construct"
    /\ emergencies' = ToSet(emerg_in)
    /\ accidents' = ToSet(acc_in)
    /\ flow' = << >>
    /\ bad_scenarios' = << >>
    /\ pc' = "simulate"
    /\ UNCHANGED << distances, speeds, volumes, green_times, rating, warned, exc,
                    runs, num_signals, emerg_in, acc_in, msg >>

\* rating = simulation.simulate()
MainSimulate ==
    /\ pc = "simulate"
    /\ SimulateCall

InitMain ==
    /\ pc = "get_user_input"
    /\ num_signals = 0
    /\ distances = << >>
    /\ speeds = << >>
    /\ volumes = << >>
    /\ green_times = << >>
    /\ emergencies = {}
    /\ accidents = {}
    /\ flow = << >>
    /\ bad_scenarios = << >>
    /\ rating = NoRating
    /\ warned = << >>
    /\ exc = "none"
    /\ runs = 0
    /\ emerg_in = << >>
    /\ acc_in = << >>
    /\ msg = ""

NextMain ==
    \/ GetUserInput
    \/ GetEmergencies
    \/ GetAccidents
    \/ CalculateGreenTimes
    \/ Construct
    \/ MainSimulate

SpecMain == InitMain /\ [][NextMain]_vars

\* ------------------------------------------------------------ properties
N == Len(distances)
Signals == 0..(N - 1)
Simulated == runs >= 1
Normal(i) == i \notin accidents /\ i \notin emergencies
\* distances[i] / speeds[i] and volumes[i] / 30, as Python divides two ints
TravelTime(i) == IntTrueDiv(distances[i + 1], speeds[i + 1])
Volume30(k) == IntTrueDiv(volumes[k], FromInt(30))
\* the optimized green time simulate() has for signal i
Ogt(i) == FMax(green_times[i + 1], VolumeGreenTime(volumes[i + 1]))
Recorded(i, label) == \E k \in 1..Len(bad_scenarios) : bad_scenarios[k] = << i, label >>
FAbs(a) == << Abs(a[1]), a[2], a[3] >>
InRange(x, lo, hi) == FLe(FromInt(lo), x) /\ FLe(x, FromInt(hi))
Positive(x) == FLt(FZero, x)

\* the relative tolerance 2^-51 (two roundings of a binary64 result)
RelTol == << 1, << 1 >>, -51 >>

\* the sum of the entries of fl from k on, added to acc without rounding
RECURSIVE ExactSumFrom(_, _, _)
ExactSumFrom(fl, k, acc) ==
    IF k > Len(fl) THEN acc ELSE ExactSumFrom(fl, k + 1, ExactAdd(acc, fl[k]))
ExactSum(fl) == ExactSumFrom(fl, 1, FZero)

\* C1: after simulate() on a fresh object with non-negative distances, volumes
\* and green times and any speeds, every flow entry lies in [0, 10].
C1_ScoreBounds ==
    Simulated => \A k \in 1..Len(flow) : InRange(flow[k], 0, 10)

C1_Witness ==
    /\ runs = 1
    /\ N >= 2
    /\ \E k \in 1..Len(flow) : FLt(FromInt(1), flow[k]) /\ FLt(flow[k], FromInt(10))
    /\ \E i \in Signals : FLt(speeds[i + 1], FZero) /\ Normal(i)

\* C2: a signal in both accidents and emergencies scores 0 and is recorded as
\* "Accident" only; a signal in emergencies alone scores 5 and is recorded as
\* "Emergency", whatever its distance, speed, volume and green time.
C2_AccidentPrecedence ==
    Simulated =>
        \A i \in Signals :
            /\ (i \in accidents /\ i \in emergencies) =>
                    /\ flow[i + 1] = FZero
                    /\ Recorded(i, "Accident")
                    /\ \A k \in 1..Len(bad_scenarios) :
                          bad_scenarios[k][1] = i => bad_scenarios[k][2] = "Accident"
            /\ (i \in emergencies /\ i \notin accidents) =>
                    /\ flow[i + 1] = FromInt(5)
                    /\ Recorded(i, "Emergency")
                    /\ \A k \in 1..Len(bad_scenarios) :
                          bad_scenarios[k][1] = i => bad_scenarios[k][2] = "Emergency"

C2_Witness ==
    /\ runs = 1
    /\ \E i, j \in Signals :
          /\ i \in accidents /\ i \in emergencies
          /\ j \in emergencies /\ j \notin accidents
          /\ speeds[j + 1] = FZero
          /\ flow[i + 1] = FZero /\ flow[j + 1] = FromInt(5)

\* C3: a signal that is neither accident nor emergency, has a non-zero speed and
\* a travel time above its optimized green time scores
\* max(1, 10 - min(9, excess / green * 9)), so at least 1, and is not recorded
\* as "Zero Speed" -- also when the optimized green time is 0.  Travel time,
\* green time and score are the floats the code computes.
C3_ScoringFloor ==
    Simulated =>
        \A i \in Signals :
            (Normal(i) /\ speeds[i + 1] # FZero /\ FLt(Ogt(i), TravelTime(i))) =>
                /\ Ogt(i) # FZero =>
                      flow[i + 1] = FMax(FromInt(1), FSub(FromInt(10),
                          FMin(FromInt(9),
                               FMul(FDiv(FSub(TravelTime(i), Ogt(i)), Ogt(i)),
                                    FromInt(9)))))
                /\ FLe(FromInt(1), flow[i + 1])
                /\ ~Recorded(i, "Zero Speed")
                /\ \A k \in 1..Len(warned) : warned[k] # i

\* C4: where a signal with speed 0 is neither accident nor emergency,
\* simulate() raises nothing, every signal, those after it included, gets its
\* score, and that signal scores 0 and is recorded as "Zero Speed".
C4_ZeroSpeedGuard ==
    Simulated =>
        \A i \in Signals :
            (Normal(i) /\ speeds[i + 1] = FZero) =>
                /\ exc = "none"
                /\ Len(flow) = N
                /\ rating # NoRating
                /\ flow[i + 1] = FZero
                /\ Recorded(i, "Zero Speed")

\* C5: a simulate() call on an object that has already been simulated yields
\* the same flow, bad_scenarios and rating as the call before it (the inputs
\* are the same: the object's fields), and flow keeps exactly N entries.
C5_Determinism ==
    [][Simulated => /\ flow' = flow
                    /\ bad_scenarios' = bad_scenarios
                    /\ rating' = rating
                    /\ Len(flow') = N]_vars

\* calculate_green_times has been called and has raised
GreenTimesRaised == pc = "aborted" /\ runs = 0
\* calculate_green_times has been called and has returned
GreenTimesKnown == pc \in {"construct", "simulate", "done"} \/ (pc = "aborted" /\ runs = 1)

\* C6: calculate_green_times raises no exception and returns one green time
\* per signal: 0 where the speed is <= 0, and max(distance / speed,
\* volume / 30) where it is > 0, so it is at least volume / 30 and at least
\* distance / speed (the two quotients as Python forms them).
C6_GreenTimeFloor ==
    /\ ~GreenTimesRaised
    /\ GreenTimesKnown =>
          /\ Len(green_times) = num_signals
          /\ \A k \in 1..Len(green_times) :
                /\ FLe(speeds[k], FZero) => green_times[k] = FZero
                /\ Positive(speeds[k]) =>
                      /\ green_times[k] = FMax(TravelTime(k - 1), Volume30(k))
                      /\ FLe(Volume30(k), green_times[k])
                      /\ FLe(TravelTime(k - 1), green_times[k])

\* the score simulate() gives signal i when its distance is d and its speed,
\* volume and green time are as they are
ScoreAt(i, d) == TryExcept(i, FromInt(d), speeds[i + 1], Ogt(i)).flow[1]

\* C7: for a signal that is neither accident nor emergency and has a positive
\* speed, the score simulate() gave it is never below the score it gives for
\* a larger distance with the same speed, volume and green time.
C7_Monotonicity ==
    Simulated =>
        \A i \in Signals :
            (Normal(i) /\ Positive(speeds[i + 1])) =>
                \A d \in 0..MaxDistance :
                    FLe(distances[i + 1], FromInt(d)) => FLe(ScoreAt(i, d), flow[i + 1])

C7_Witness ==
    /\ runs = 1
    /\ Normal(0) /\ FLt(FromInt(1), speeds[1]) /\ Positive(volumes[1])
    /\ FLt(flow[1], FromInt(10))
    /\ \E d \in 1..MaxDistance :
          /\ FromInt(d - 1) = distances[1]
          /\ FLt(FromInt(1), ScoreAt(0, d))
          /\ FLt(ScoreAt(0, d), flow[1])

\* C8 as stated: the rating simulate() stores is the arithmetic mean of the N
\* flow scores, N * rating = sum of flow, when N > 0, and 0 when N = 0, where
\* flow and bad_scenarios are empty.
C8_AggregateRating ==
    Simulated =>
        /\ N > 0 => /\ Len(flow) = N
                    /\ ExactMul(FromInt(N), rating) = ExactSum(flow)
        /\ N = 0 => rating = FZero /\ flow = << >> /\ bad_scenarios = << >>

\* C8 amended: the rating simulate() stores is the arithmetic mean of the N
\* flow scores up to floating-point rounding, N * rating differs from the sum
\* of flow by at most N * 2^-51 times that sum, when N > 0, and is 0 when
\* N = 0, where flow and bad_scenarios are empty.
C8_RatingTolerance ==
    Simulated =>
        /\ N > 0 => /\ Len(flow) = N
                    /\ rating # NoRating
                    /\ FLe(FAbs(ExactSub(ExactMul(FromInt(N), rating), ExactSum(flow))),
                           ExactMul(ExactMul(FromInt(N), RelTol), ExactSum(flow)))
        /\ N = 0 => rating = FZero /\ flow = << >> /\ bad_scenarios = << >>

C8_Witness ==
    /\ runs = 1
    /\ N = 2
    /\ flow[1] # flow[2]
    /\ ExactMul(FromInt(N), rating) # ExactSum(flow)

\* C9: the lists get_index_list returns, and so the emergencies and accidents
\* sets of the simulation, hold only indices in [0, num_signals).
C9_IndexRange ==
    /\ pc \notin {"get_user_input", "emergencies"} =>
          \A k \in 1..Len(emerg_in) : emerg_in[k] \in 0..(num_signals - 1)
    /\ pc \notin {"get_user_input", "emergencies", "accidents"} =>
          \A k \in 1..Len(acc_in) : acc_in[k] \in 0..(num_signals - 1)
    /\ emergencies \subseteq 0..(num_signals - 1)
    /\ accidents \subseteq 0..(num_signals - 1)

\* C10: in main(), where green_times comes from calculate_green_times on the
\* same lists, every signal that is neither accident nor emergency and has a
\* positive speed scores exactly 10, every score is 0, 5 or 10, and no
\* "Low flow" record is made.
C10_Pipeline ==
    pc = "done" =>
        /\ \A i \in Signals :
              (Normal(i) /\ Positive(speeds[i + 1])) => flow[i + 1] = FromInt(10)
        /\ \A k \in 1..Len(flow) : flow[k] \in {FZero, FromInt(5), FromInt(10)}
        /\ \A k \in 1..Len(bad_scenarios) :
              bad_scenarios[k][2] \in {"Accident", "Emergency", "Zero Speed"}

C10_Witness ==
    /\ pc = "done"
    /\ \E i, j \in Signals :
          /\ Normal(i) /\ Positive(speeds[i + 1]) /\ volumes[i + 1] = FZero
          /\ flow[i + 1] = FromInt(10)
          /\ Normal(j) /\ Positive(speeds[j + 1])
          /\ FLt(TravelTime(j), green_times[j + 1])
          /\ flow[j + 1] = FromInt(10)

====
